---- MODULE Spec2Model ----
(***************************************************************************)
(* A model of src/pyqt5lsa.py: the MainWindow shell of the structural      *)
(* analysis program (open_file, save_file, on_text_changed and the         *)
(* analysis dispatch), together with the engine it calls through           *)
(* db.run_analysis and db.xml_reader.                                      *)
(*                                                                         *)
(* Strings the code slices (file names) are sequences of one-character     *)
(* strings; XML documents are sequences of tokens.                         *)
(***************************************************************************)
EXTENDS Integers, Sequences, FiniteSets, TLC

\* ------------------------------------------------------------------ bounds

\* Static-Linear runs one window starts in a behaviour (each run tags what it writes).
MaxRuns == 2

\* ------------------------------------------------------------- file names

NoFile == << >>

\* '_results.txt' (open_file, line 336)
ResultsSuffix == <<"_", "r", "e", "s", "u", "l", "t", "s", ".", "t", "x", "t">>

\* The files the file dialog can return: absolute paths of existing files.
\*   /m        no extension            /m.x      one extension
\*   /m.v.x    a dot in the base name  /d.r/n.x  a dot in a directory
FileNames ==
    { <<"/", "m">>,
      <<"/", "m", ".", "x">>,
      <<"/", "m", ".", "v", ".", "x">>,
      <<"/", "d", ".", "r", "/", "n", ".", "x">> }

Positions(s, c) == { i \in 1..Len(s) : s[i] = c }

Min(S) == CHOOSE x \in S : \A y \in S : x <= y

\* str.index(c): the 0-based position of the first c; -1 stands for ValueError.
Index(s, c) == IF Positions(s, c) = {} THEN -1 ELSE Min(Positions(s, c)) - 1

\* s[:n]
Prefix(s, n) == SubSeq(s, 1, n)

\* filename[:filename.index('.')] + '_results.txt' (lines 335-336)
ResultsPath(filename) == Prefix(filename, Index(filename, ".")) \o ResultsSuffix

\* ------------------------------------------------------------ XML documents

\* The texts a file or the editor can hold, as token sequences.
Docs ==
    { <<"<r>", "</r>">>,
      <<"<r>", "t", "</r>">>,
      <<"<r>", "t">> }

EmptyText == << >>

\* ET.fromstring accepts a text with exactly one root element, every tag
\* closed, and no text outside the root. st = <<depth, rootClosed, ok>>.
RECURSIVE ParseFrom(_, _, _)
ParseFrom(doc, i, st) ==
    IF i > Len(doc) THEN st
    ELSE LET tok == doc[i]
             depth == st[1]
             closed == st[2]
             nxt ==
               IF tok = "<r>"
                 THEN IF depth = 0 /\ closed THEN <<depth, closed, FALSE>>
                      ELSE <<depth + 1, closed, st[3]>>
               ELSE IF tok = "</r>"
                 THEN IF depth = 0 THEN <<depth, closed, FALSE>>
                      ELSE <<depth - 1, depth = 1, st[3]>>
               ELSE IF depth = 0 THEN <<depth, closed, FALSE>>
                    ELSE st
         IN ParseFrom(doc, i + 1, nxt)

WellFormed(doc) ==
    LET st == ParseFrom(doc, 1, <<0, FALSE, TRUE>>)
    IN st[3] /\ st[1] = 0 /\ st[2]

\* The tree model after clear() and setHorizontalHeaderLabels (lines 209-210, 328-329).
EmptyTree == << >>

\* insert_tree_items: one item per element tag and one per text line, nested
\* under its parent; an item is <<depth, label>>.
RECURSIVE TreeItems(_, _, _)
TreeItems(doc, i, depth) ==
    IF i > Len(doc) THEN << >>
    ELSE IF doc[i] = "<r>"
      THEN << <<depth, "r">> >> \o TreeItems(doc, i + 1, depth + 1)
    ELSE IF doc[i] = "</r>"
      THEN TreeItems(doc, i + 1, depth - 1)
    ELSE << <<depth, doc[i]>> >> \o TreeItems(doc, i + 1, depth)

parse_xml_file(doc) == TreeItems(doc, 1, 0)

\* ------------------------------------------------------------------- state

VARIABLES
    current_file,    \* self.current_file ('' is NoFile)
    is_modified,     \* self.is_modified
    save_enabled,    \* self.save_button.isEnabled()
    xml_text,        \* the text of self.xml_text
    tree_model,      \* the items of self.tree_model
    anal_type,       \* self.analysis_type_combo.currentText()
    db_model,        \* the file the structural model held by self.db was read from
    results_file,    \* self.db.results_file
    analysis_text,   \* the text of self.analysis_text
    log_text,        \* the text of self.log_text
    disk_reports,    \* the results files on disk: path -> <<run, "partial" | "complete">>
    disk_log,        \* 'analysis.log' on disk: <<run, "partial" | "ok" | "failed">>, or NoLog
    runs,            \* Static-Linear runs started so far
    pc,              \* where the window's handler is: "idle", a step of run_static_linear, "aborted"
    engine,          \* where db.run_analysis is: "idle", "started", "writing"
    op,              \* what the most recent handler invocation did
    \* inside one db.run_analysis (the stages of the engine)
    e_done,          \* the stages run so far, in order
    e_ref,           \* the reference symmetric-banded solve of the saved pre-solve system
    e_special,       \* the displacements the specialized banded solver returned
    e_al,            \* db.al: the displacements force recovery will use
    e_forces,        \* the member forces recovered
    e_report,        \* the report written: <<displacements, forces>>
    e_log,           \* the messages sent to the log destination
    \* two windows running on the same model file and working directory
    c_pc,            \* where each window's run_static_linear is
    c_owner,         \* the run that owns the results path, 0 for none
    c_log,           \* the lines of 'analysis.log', each tagged with the window whose run wrote it
    c_report,        \* the results file: the window whose run wrote it, 0 for none
    c_seen           \* what each window loaded into its panes: <<log lines, report>>

vars == <<current_file, is_modified, save_enabled, xml_text, tree_model, anal_type,
          db_model, results_file, analysis_text, log_text, disk_reports, disk_log,
          runs, pc, engine, op,
          e_done, e_ref, e_special, e_al, e_forces, e_report, e_log,
          c_pc, c_owner, c_log, c_report, c_seen>>

\* One window's state.
windowVars == <<current_file, is_modified, save_enabled, xml_text, tree_model, anal_type,
                db_model, results_file, analysis_text, log_text, disk_reports, disk_log,
                runs, pc, engine, op>>

\* The stages inside one engine run.
stageVars == <<e_done, e_ref, e_special, e_al, e_forces, e_report, e_log>>

\* The runs of two windows.
pairVars == <<c_pc, c_owner, c_log, c_report, c_seen>>

\* What the editing handlers (on_text_changed, open_file, save_file) never touch.
runVars == <<anal_type, analysis_text, log_text, disk_reports, disk_log, runs, pc, engine,
             stageVars, pairVars>>

\* What the handlers of the Run menu never touch.
fileVars == <<current_file, is_modified, save_enabled, xml_text, tree_model, db_model,
              results_file, stageVars, pairVars>>

Windows == {1, 2}

NoModel == << >>

\* The state db.xml_reader may leave behind when it raises part-way.
BrokenModel == <<"?">>

NoLog == << >>

\* The items of analysis_type_combo (lines 125-132).
AnalysisTypes ==
    { "Static Linear Analysis", "Static Nonlinear Analysis", "Dynamic Linear Analysis",
      "Dynamic Nonlinear Analysis", "Frequency Domain Analysis", "Buckling Analysis" }

\* The record of one handler invocation.
\*   arg           the input: the content read by open_file, the analysis type of a run
\*   notices       the message boxes shown, <<title, text>> each
\*   run_calls     calls of db.run_analysis
\*   reader_calls  calls of db.xml_reader
\*   reads         the files read, in order
\*   wrote         << >>, or <<file, text, "full" | "partial">> written by save_file
\*   failed        db.run_analysis reported a failure
\*   shown         a results report was loaded into the log pane
Invocation(name, arg, outcome, notices, reader_calls, wrote) ==
    [ name |-> name, arg |-> arg, outcome |-> outcome, notices |-> notices,
      run_calls |-> 0, reader_calls |-> reader_calls, reads |-> << >>,
      wrote |-> wrote, failed |-> FALSE, shown |-> FALSE ]

\* __init__ (lines 30-37, 133, 162, 209-210)
Init ==
    /\ current_file = NoFile
    /\ is_modified = FALSE
    /\ save_enabled = FALSE
    /\ xml_text = EmptyText
    /\ tree_model = EmptyTree
    /\ anal_type = "Static Linear Analysis"
    /\ db_model = NoModel
    /\ results_file = NoFile
    /\ analysis_text = NoLog
    /\ log_text = << >>
    /\ disk_reports = << >>
    /\ disk_log = NoLog
    /\ runs = 0
    /\ pc = "idle"
    /\ engine = "idle"
    /\ op = Invocation("init", << >>, "ok", << >>, 0, << >>)
    /\ e_done = << >>
    /\ e_ref = << >>
    /\ e_special = << >>
    /\ e_al = << >>
    /\ e_forces = << >>
    /\ e_report = << >>
    /\ e_log = << >>
    /\ c_pc = [w \in Windows |-> "idle"]
    /\ c_owner = 0
    /\ c_log = << >>
    /\ c_report = 0
    /\ c_seen = [w \in Windows |-> << >>]

\* ------------------------------------------------------- on_text_changed

\* lines 310-311
on_text_changed_is_modified(m) == IF ~m THEN TRUE ELSE m

\* on_text_changed without line 312: the button is left as it was.
on_text_changed_save_enabled_kept(e) == e

\* line 312
on_text_changed_save_enabled(e) == TRUE

\* The user types in the XML editor; textChanged is wired to on_text_changed (line 235).
TextEdited(doc) ==
    /\ pc = "idle"
    /\ doc # xml_text
    /\ xml_text' = doc
    /\ is_modified' = on_text_changed_is_modified(is_modified)
    /\ save_enabled' = on_text_changed_save_enabled(save_enabled)
    /\ op' = Invocation("edit", << >>, "ok", << >>, 0, << >>)
    /\ UNCHANGED <<current_file, tree_model, db_model, results_file>>
    /\ UNCHANGED runVars

\* The user picks an item of the combo box.
SelectAnalysisType(t) ==
    /\ pc = "idle"
    /\ t # anal_type
    /\ anal_type' = t
    /\ UNCHANGED <<analysis_text, log_text, disk_reports, disk_log, runs, pc, engine, op>>
    /\ UNCHANGED fileVars

\* ------------------------------------------------------------- open_file

\* What the environment can make fail inside open_file: reading the file
\* (lines 319-320), ET.parse in parse_xml_file (line 330), db.xml_reader (line 333).
OpenFaults == {"none", "read", "parse", "reader"}

\* open_file without the validation of lines 322-326.
open_file_outcome_unvalidated(filename, content, fault) ==
    IF filename = NoFile THEN "cancelled"
    ELSE IF fault = "read" THEN "read_error"
    ELSE IF fault = "parse" THEN "parse_error"
    ELSE IF fault = "reader" THEN "reader_error"
    ELSE IF Index(filename, ".") = -1 THEN "index_error"
    ELSE "ok"

\* How far open_file gets (lines 316-338).
open_file_outcome(filename, content, fault) ==
    IF filename = NoFile THEN "cancelled"                      \* line 317
    ELSE IF fault = "read" THEN "read_error"                   \* lines 319-320 raise
    ELSE IF ~WellFormed(content) THEN "invalid_xml"            \* lines 322-326
    ELSE IF fault = "parse" THEN "parse_error"                 \* line 330 raises
    ELSE IF fault = "reader" THEN "reader_error"               \* line 333 raises
    ELSE IF Index(filename, ".") = -1 THEN "index_error"       \* line 335 raises
    ELSE "ok"

\* The outcomes that passed line 328 (tree_model.clear()).
ClearsTree == {"parse_error", "reader_error", "index_error", "ok"}

\* The outcomes that passed line 330 (parse_xml_file), 331 (current_file) and 332 (setText).
SetsCurrentFile == {"reader_error", "index_error", "ok"}

\* The outcomes that called db.xml_reader (line 333), and those that passed it.
CallsReader == {"reader_error", "index_error", "ok"}

ReaderReturned == {"index_error", "ok"}

\* The notices of open_file (lines 325, 338).
open_file_notices(outcome) ==
    IF outcome = "invalid_xml" THEN << <<"Open Error", "Invalid XML format">> >>
    ELSE IF outcome \in {"read_error", "parse_error", "reader_error", "index_error"}
      THEN << <<"Open Error", "str(e)">> >>
    ELSE << >>

OpenFile(filename, content, fault, readerLeaves) ==
    LET outcome == open_file_outcome(filename, content, fault)
    IN
    /\ pc = "idle"
    \* one choice of the inputs the outcome does not read
    /\ outcome # "reader_error" => readerLeaves = db_model
    /\ outcome = "cancelled" => fault = "none" /\ content = EmptyText
    /\ outcome = "read_error" => content = EmptyText
    /\ outcome # "cancelled" /\ outcome # "read_error" => content \in Docs
    /\ tree_model' = IF outcome \notin ClearsTree THEN tree_model
                     ELSE IF outcome = "parse_error" THEN EmptyTree
                     ELSE parse_xml_file(content)
    /\ current_file' = IF outcome \in SetsCurrentFile THEN filename ELSE current_file
    /\ xml_text' = IF outcome \in SetsCurrentFile THEN content ELSE xml_text
    \* setText emits textChanged, which runs on_text_changed
    /\ is_modified' = IF outcome \in SetsCurrentFile
                        THEN on_text_changed_is_modified(is_modified) ELSE is_modified
    /\ save_enabled' = IF outcome \in SetsCurrentFile
                         THEN on_text_changed_save_enabled(save_enabled) ELSE save_enabled
    /\ db_model' = IF outcome \in ReaderReturned THEN filename
                   ELSE IF outcome \in CallsReader THEN readerLeaves
                   ELSE db_model
    /\ results_file' = IF outcome = "ok" THEN ResultsPath(filename) ELSE results_file
    /\ op' = Invocation("open", content, outcome, open_file_notices(outcome),
                        IF outcome \in CallsReader THEN 1 ELSE 0, << >>)
    /\ UNCHANGED runVars

\* ------------------------------------------------------------- save_file

\* line 341 without the test of is_modified.
save_file_returns_early_unmodified(file, modified) == file = NoFile

\* line 341: the early return
save_file_returns_early(file, modified) == file = NoFile \/ ~modified

save_file_outcome(file, modified, text, writeResult) ==
    IF save_file_returns_early(file, modified) THEN "skipped"
    ELSE IF ~WellFormed(text) THEN "invalid_xml"               \* lines 345-349
    ELSE writeResult                                           \* lines 350-358

\* open(..., 'w') raises before anything is written, f.write raises after the
\* file was truncated, or both succeed.
WriteResults == {"ok", "open_error", "write_error"}

save_file_notices(outcome) ==
    IF outcome = "invalid_xml" THEN << <<"Save Error", "Invalid XML format">> >>
    ELSE IF outcome = "ok" THEN << <<"Save", "Saved">> >>
    ELSE IF outcome \in {"open_error", "write_error"} THEN << <<"Save Error", "str(e)">> >>
    ELSE << >>

save_file_wrote(outcome, file, text) ==
    IF outcome = "ok" THEN <<file, text, "full">>
    ELSE IF outcome = "write_error" THEN <<file, text, "partial">>
    ELSE << >>

SaveFile(writeResult) ==
    LET outcome == save_file_outcome(current_file, is_modified, xml_text, writeResult)
    IN
    /\ pc = "idle"
    /\ outcome \in {"skipped", "invalid_xml"} => writeResult = "ok"
    /\ is_modified' = IF outcome = "ok" THEN FALSE ELSE is_modified        \* line 354
    /\ save_enabled' = IF outcome = "ok" THEN FALSE ELSE save_enabled      \* line 355
    /\ op' = Invocation("save", << >>, outcome, save_file_notices(outcome), 0,
                        save_file_wrote(outcome, current_file, xml_text))
    /\ UNCHANGED <<current_file, xml_text, tree_model, db_model, results_file>>
    /\ UNCHANGED runVars

\* ------------------------------------------------- run_selected_analysis

\* run_selected_analysis with the second branch calling the first handler.
run_selected_analysis_wrong_branch(t) ==
    IF t \in {"Static Linear Analysis", "Static Nonlinear Analysis"} THEN "run_static_linear"
    ELSE IF t = "Dynamic Linear Analysis" THEN "run_dynamic_linear"
    ELSE IF t = "Dynamic Nonlinear Analysis" THEN "run_dynamic_nonlinear"
    ELSE IF t = "Frequency Domain Analysis" THEN "run_frequency_domain"
    ELSE IF t = "Buckling Analysis" THEN "run_buckling"
    ELSE "unknown"

\* The handler run_selected_analysis dispatches to (lines 430-444).
run_selected_analysis(t) ==
    IF t = "Static Linear Analysis" THEN "run_static_linear"
    ELSE IF t = "Static Nonlinear Analysis" THEN "run_static_nonlinear"
    ELSE IF t = "Dynamic Linear Analysis" THEN "run_dynamic_linear"
    ELSE IF t = "Dynamic Nonlinear Analysis" THEN "run_dynamic_nonlinear"
    ELSE IF t = "Frequency Domain Analysis" THEN "run_frequency_domain"
    ELSE IF t = "Buckling Analysis" THEN "run_buckling"
    ELSE "unknown"

\* The handlers of lines 455-468: one information box each.
NotImplementedHandlers ==
    { "run_static_nonlinear", "run_dynamic_linear", "run_dynamic_nonlinear",
      "run_frequency_domain", "run_buckling" }

\* The message box a handler other than run_static_linear shows (lines 444, 456-468).
handler_notices(handler, t) ==
    IF handler \in NotImplementedHandlers THEN << <<"Not Implemented", t>> >>
    ELSE IF handler = "unknown" THEN << <<"Analysis", "Unknown analysis type selected.">> >>
    ELSE << >>

\* run_static_linear with the results file read before the log file.
run_static_linear_results_first == <<"run_analysis", "read_results", "read_log">>

\* The statements of run_static_linear in order (lines 448, 449-450, 451-453).
run_static_linear == <<"run_analysis", "read_log", "read_results">>

\* The statement after step s, "idle" after the last.
StepAfter(s) ==
    LET i == CHOOSE k \in 1..Len(run_static_linear) : run_static_linear[k] = s
    IN IF i = Len(run_static_linear) THEN "idle" ELSE run_static_linear[i + 1]

\* An exception no handler catches leaves the slot: PyQt5 either aborts the
\* application or prints the traceback and returns to the event loop.
AfterUncaught == {"idle", "aborted"}

\* The user triggers Run (lines 176, 294).
RunSelectedAnalysis ==
    LET handler == run_selected_analysis(anal_type)
    IN
    /\ pc = "idle"
    /\ IF handler = "run_static_linear"
         THEN /\ runs < MaxRuns
              /\ runs' = runs + 1
              /\ pc' = run_static_linear[1]
         ELSE UNCHANGED <<runs, pc>>
    /\ op' = Invocation("run", anal_type, handler, handler_notices(handler, anal_type),
                        0, << >>)
    /\ UNCHANGED <<anal_type, analysis_text, log_text, disk_reports, disk_log, engine>>
    /\ UNCHANGED fileVars

\* line 448: db.run_analysis(log_file=log_file) is entered; the engine opens its
\* log destination.
CallRunAnalysis ==
    /\ pc = "run_analysis"
    /\ engine = "idle"
    /\ engine' = "started"
    /\ disk_log' = <<runs, "partial">>
    /\ op' = [op EXCEPT !.run_calls = @ + 1]
    /\ UNCHANGED <<anal_type, analysis_text, log_text, disk_reports, runs, pc>>
    /\ UNCHANGED fileVars

\* The engine fails before it writes any report and returns a structured failure.
EngineReturnsFailure ==
    /\ pc = "run_analysis"
    /\ engine = "started"
    /\ engine' = "idle"
    /\ disk_log' = <<runs, "failed">>
    /\ op' = [op EXCEPT !.failed = TRUE]
    /\ pc' = StepAfter("run_analysis")
    /\ UNCHANGED <<anal_type, analysis_text, log_text, disk_reports, runs>>
    /\ UNCHANGED fileVars

\* The engine fails before it writes any report and the failure leaves
\* run_analysis as an exception, which run_static_linear does not catch.
EngineRaises(after) ==
    /\ pc = "run_analysis"
    /\ engine = "started"
    /\ engine' = "idle"
    /\ disk_log' = <<runs, "failed">>
    /\ op' = [op EXCEPT !.failed = TRUE]
    /\ pc' = after
    /\ UNCHANGED <<anal_type, analysis_text, log_text, disk_reports, runs>>
    /\ UNCHANGED fileVars

WriteReport(reports, path, content) ==
    [p \in (DOMAIN reports) \cup {path} |-> IF p = path THEN content ELSE reports[p]]

\* The report generator starts to write the report of the loaded model at
\* db.results_file.
EngineWritesReport ==
    /\ pc = "run_analysis"
    /\ engine = "started"
    /\ db_model \in FileNames
    /\ results_file # NoFile
    /\ engine' = "writing"
    /\ disk_reports' = WriteReport(disk_reports, results_file, <<runs, "partial">>)
    /\ UNCHANGED <<anal_type, analysis_text, log_text, disk_log, runs, pc, op>>
    /\ UNCHANGED fileVars

\* The report is complete and run_analysis returns.
EngineReturns ==
    /\ pc = "run_analysis"
    /\ engine = "writing"
    /\ engine' = "idle"
    /\ disk_reports' = WriteReport(disk_reports, results_file, <<runs, "complete">>)
    /\ disk_log' = <<runs, "ok">>
    /\ pc' = StepAfter("run_analysis")
    /\ UNCHANGED <<anal_type, analysis_text, log_text, runs, op>>
    /\ UNCHANGED fileVars

\* lines 449-450: the log file is read into the analysis pane.
ReadLog(after) ==
    /\ pc = "read_log"
    /\ IF disk_log = NoLog
         THEN /\ pc' = after                       \* FileNotFoundError
              /\ UNCHANGED <<analysis_text, op>>
         ELSE /\ analysis_text' = disk_log
              /\ op' = [op EXCEPT !.reads = Append(@, "log")]
              /\ pc' = StepAfter("read_log")
    /\ UNCHANGED <<anal_type, log_text, disk_reports, disk_log, runs, engine>>
    /\ UNCHANGED fileVars

\* lines 451-453: the results file is read into the log pane.
ReadResults(after) ==
    /\ pc = "read_results"
    /\ IF results_file \notin DOMAIN disk_reports
         THEN /\ pc' = after                       \* FileNotFoundError, AttributeError
              /\ UNCHANGED <<log_text, op>>
         ELSE /\ log_text' = disk_reports[results_file]
              /\ op' = [op EXCEPT !.reads = Append(@, "results"), !.shown = TRUE]
              /\ pc' = StepAfter("read_results")
    /\ UNCHANGED <<anal_type, analysis_text, disk_reports, disk_log, runs, engine>>
    /\ UNCHANGED fileVars

\* ------------------------------------------- the stages of db.run_analysis

\* Degrees of freedom of the models solved.
MaxDof == 2

\* Displacements are integers in units of 1e-7. assert_almost_equal(decimal=6)
\* accepts |actual - desired| < 1.5e-6, that is fewer than 15 units.
AlmostEqualUnits == 15

\* The displacement values of the reference solve, and the departures of the
\* specialized solver from it.
RefValues == {0, 40}

Departures == {-15, 0, 14, 15}

Abs(x) == IF x < 0 THEN -x ELSE x

\* assert_almost_equal(actual, desired, decimal=6) passes
AlmostEqual(actual, desired) ==
    \A i \in 1..Len(desired) : Abs(actual[i] - desired[i]) < AlmostEqualUnits

\* The substitution made silently.
substitution_log_silent(agree) == << >>

\* The solver-discrepancy warning: logged when the reference result is substituted.
substitution_log(agree) == IF agree THEN << >> ELSE <<"solver discrepancy: reference result substituted">>

\* The displacements kept after the comparison.
displacements_after_compare(special, ref) ==
    IF AlmostEqual(special, ref) THEN special ELSE ref

\* Member end forces from the displacements: element i joins DOF i-1 (the
\* support for i = 1) and DOF i, with unit stiffness 3.
forcegen(al) == [i \in 1..Len(al) |-> 3 * (al[i] - (IF i = 1 THEN 0 ELSE al[i - 1]))]

\* The stages of a run from the solve on, in order.
run_analysis_stages == <<"solve", "compare", "recover", "report">>

\* The stage that runs next.
NextStage == run_analysis_stages[Len(e_done) + 1]

\* The banded solver solves the reduced system in place; the pre-solve system
\* was saved, so the reference solve of it is available.
EngineSolve(ref, departure) ==
    /\ e_done = << >> \/ Len(e_done) = Len(run_analysis_stages)
    /\ e_done' = <<run_analysis_stages[1]>>
    /\ e_ref' = ref
    /\ e_special' = [i \in 1..Len(ref) |-> ref[i] + departure[i]]
    /\ e_al' = e_special'
    /\ e_forces' = << >>
    /\ e_report' = << >>
    /\ e_log' = <<"solver finished">>
    /\ UNCHANGED <<windowVars, pairVars>>

\* The result is compared with the reference solve; on a mismatch the
\* reference result is substituted and the substitution logged.
EngineCompare ==
    /\ e_done # << >> /\ Len(e_done) < Len(run_analysis_stages)
    /\ NextStage = "compare"
    /\ e_done' = Append(e_done, "compare")
    /\ e_al' = displacements_after_compare(e_al, e_ref)
    /\ e_log' = e_log \o substitution_log(AlmostEqual(e_al, e_ref))
    /\ UNCHANGED <<e_ref, e_special, e_forces, e_report, windowVars, pairVars>>

\* Force recovery from the displacements held in db.al.
EngineRecover ==
    /\ e_done # << >> /\ Len(e_done) < Len(run_analysis_stages)
    /\ NextStage = "recover"
    /\ e_done' = Append(e_done, "recover")
    /\ e_forces' = forcegen(e_al)
    /\ UNCHANGED <<e_ref, e_special, e_al, e_report, e_log, windowVars, pairVars>>

\* The report generator writes displacements and member forces.
EngineReport ==
    /\ e_done # << >> /\ Len(e_done) < Len(run_analysis_stages)
    /\ NextStage = "report"
    /\ e_done' = Append(e_done, "report")
    /\ e_report' = <<e_al, e_forces>>
    /\ UNCHANGED <<e_ref, e_special, e_al, e_forces, e_log, windowVars, pairVars>>

\* ------------------------------------ two windows, one working directory

\* Two instances of the program have opened the same model file from the same
\* working directory: both runs write the relative path 'analysis.log'
\* (line 447) and the same db.results_file.

\* The lines one run sends to its log destination, in order.
RunLogLines == <<"started", "solver finished", "report written">>

\* line 448: window w calls db.run_analysis(log_file="analysis.log"); the engine
\* opens the log destination afresh and logs its start.
PairCallRunAnalysis(w) ==
    /\ c_pc[w] = "idle"
    /\ c_pc' = [c_pc EXCEPT ![w] = "assembling"]
    /\ c_log' = << <<w, RunLogLines[1]>> >>
    /\ c_seen' = [c_seen EXCEPT ![w] = << >>]
    /\ UNCHANGED <<c_owner, c_report, windowVars, stageVars>>

\* The engine of w's run logs its progress.
PairEngineLogs(w) ==
    /\ c_pc[w] = "assembling"
    /\ c_pc' = [c_pc EXCEPT ![w] = "solved"]
    /\ c_log' = Append(c_log, <<w, RunLogLines[2]>>)
    /\ UNCHANGED <<c_owner, c_report, c_seen, windowVars, stageVars>>

\* The report generator of w's run takes exclusive ownership of the results path.
PairEngineAcquires(w) ==
    /\ c_pc[w] = "solved"
    /\ c_owner = 0
    /\ c_owner' = w
    /\ c_pc' = [c_pc EXCEPT ![w] = "owner"]
    /\ UNCHANGED <<c_log, c_report, c_seen, windowVars, stageVars>>

\* The report is written whole and made visible at once.
PairEngineWritesReport(w) ==
    /\ c_pc[w] = "owner"
    /\ c_report' = w
    /\ c_pc' = [c_pc EXCEPT ![w] = "written"]
    /\ UNCHANGED <<c_owner, c_log, c_seen, windowVars, stageVars>>

\* The engine gives up the results path, logs the end and returns.
PairEngineReturns(w) ==
    /\ c_pc[w] = "written"
    /\ c_owner' = 0
    /\ c_log' = Append(c_log, <<w, RunLogLines[3]>>)
    /\ c_pc' = [c_pc EXCEPT ![w] = "read_log"]
    /\ UNCHANGED <<c_report, c_seen, windowVars, stageVars>>

\* lines 449-450 in window w
PairReadLog(w) ==
    /\ c_pc[w] = "read_log"
    /\ c_seen' = [c_seen EXCEPT ![w] = <<c_log>>]
    /\ c_pc' = [c_pc EXCEPT ![w] = "read_results"]
    /\ UNCHANGED <<c_owner, c_log, c_report, windowVars, stageVars>>

\* lines 451-453 in window w
PairReadResults(w) ==
    /\ c_pc[w] = "read_results"
    /\ c_seen' = [c_seen EXCEPT ![w] = Append(@, c_report)]
    /\ c_pc' = [c_pc EXCEPT ![w] = "idle"]
    /\ UNCHANGED <<c_owner, c_log, c_report, windowVars, stageVars>>

\* --------------------------------------------------------- specification

\* The editing handlers: every file, document and fault; no run is started.
Next ==
    \/ \E doc \in Docs \cup {EmptyText} : TextEdited(doc)
    \/ \E filename \in FileNames \cup {NoFile}, content \in Docs \cup {EmptyText},
          fault \in OpenFaults, readerLeaves \in {db_model, BrokenModel} :
            OpenFile(filename, content, fault, readerLeaves)
    \/ \E writeResult \in WriteResults : SaveFile(writeResult)

Spec == Init /\ [][Next]_vars

\* The document of the model files opened between runs.
RunDoc == <<"<r>", "t", "</r>">>

\* The model files opened between runs: their results paths differ.
RunFiles == { <<"/", "m", ".", "x">>, <<"/", "d", ".", "r", "/", "n", ".", "x">> }

\* The handlers of the Run menu, between open_file calls that load a model or
\* fail in db.xml_reader; the editor is left alone.
RunNext ==
    \/ \E filename \in RunFiles, fault \in {"none", "reader"},
          readerLeaves \in {db_model, BrokenModel} :
            OpenFile(filename, RunDoc, fault, readerLeaves)
    \/ \E t \in AnalysisTypes : SelectAnalysisType(t)
    \/ RunSelectedAnalysis
    \/ CallRunAnalysis
    \/ EngineReturnsFailure
    \/ \E after \in AfterUncaught : EngineRaises(after)
    \/ EngineWritesReport
    \/ EngineReturns
    \/ \E after \in AfterUncaught : ReadLog(after)
    \/ \E after \in AfterUncaught : ReadResults(after)

RunSpec == Init /\ [][RunNext]_vars

\* ------------------------------------------------------------ properties

\* The five analysis types other than Static Linear.
OtherTypes == AnalysisTypes \ {"Static Linear Analysis"}

C1_Counts ==
    op.name = "run" =>
        IF op.arg = "Static Linear Analysis"
          THEN \/ op.run_calls = 1
               \/ op.run_calls = 0 /\ pc = "run_analysis" /\ engine = "idle"
          ELSE /\ op.arg \in OtherTypes
               /\ op.notices = << <<"Not Implemented", op.arg>> >>
               /\ op.run_calls = 0
               /\ op.reads = << >>
               /\ pc = "idle"

C1_Frame ==
    (op' # op /\ op'.name = "run" /\ op'.arg \in OtherTypes) =>
        UNCHANGED <<db_model, current_file, results_file, is_modified, analysis_text,
                    log_text, disk_reports, disk_log>>

\* C1: every invocation of run_selected_analysis with Static Linear selected
\* calls db.run_analysis exactly once (the call is the first statement of
\* run_static_linear, so before it the count is 0 and after it 1); with any of
\* the five other types selected it shows exactly one 'Not Implemented' notice,
\* never calls run_analysis, reads no log or results file, and leaves the
\* model, current_file, results_file, is_modified and both text panes as they were.
C1_Dispatch == [](C1_Counts) /\ [][C1_Frame]_vars

\* C1 witness: a 'Not Implemented' dispatch after a Static-Linear run has
\* loaded a report into the log pane.
C1_Witness ==
    /\ op.name = "run"
    /\ op.arg = "Buckling Analysis"
    /\ op.notices # << >>
    /\ runs >= 1
    /\ log_text # << >>
    /\ db_model \in FileNames

Max(S) == CHOOSE x \in S : \A y \in S : x >= y

\* The extension of a path starts at the last '.' of its file name (the part
\* after the last '/'); the results path replaces it by ResultsSuffix.
ExpectedResultsPath(f) ==
    LET slash == Max(Positions(f, "/") \cup {0})
        dots == { i \in Positions(f, ".") : i > slash }
    IN IF dots = {} THEN f \o ResultsSuffix
       ELSE Prefix(f, Max(dots) - 1) \o ResultsSuffix

\* C2: for every path open_file accepts, db.results_file is the path with its
\* extension (from the last '.' of the file name) replaced by '_results.txt',
\* also when a directory or the base name holds further dots.
C2_ResultsPathReplacesExtension ==
    (op.name = "open" /\ op.outcome = "ok") =>
        results_file = ExpectedResultsPath(current_file)

\* C3: after a Static-Linear run in which db.run_analysis reported a failure,
\* no results report has been loaded into the log pane by that run.
C3_NoReportAfterFailedRun ==
    (op.name = "run" /\ op.failed) => ~op.shown

C5_Frame ==
    (op' # op /\ op'.name = "open" /\ op'.arg \in Docs /\ ~WellFormed(op'.arg)) =>
        /\ op'.notices = << <<"Open Error", "Invalid XML format">> >>
        /\ op'.reader_calls = 0
        /\ UNCHANGED <<tree_model, current_file, xml_text, is_modified, save_enabled,
                       db_model, results_file>>

\* C5: open_file on a readable file whose content is not well-formed XML shows
\* the 'Invalid XML format' error, does not call db.xml_reader, and leaves the
\* tree model, current_file, the editor text, is_modified, the loaded model and
\* db.results_file as they were.
C5_InvalidXmlChangesNothing == [][C5_Frame]_vars

\* C5 witness: an ill-formed file was opened while another file is loaded.
C5_Witness ==
    /\ op.name = "open"
    /\ op.arg \in Docs
    /\ ~WellFormed(op.arg)
    /\ current_file \in FileNames
    /\ tree_model # EmptyTree
    /\ db_model = current_file

\* C6: in every Static-Linear run the files are read only after db.run_analysis
\* has returned, the log file first and the results file second, and the
\* report the shell loads is never one still being written; while the engine
\* writes, the shell is inside the call.
C6_ReadsFollowRun ==
    /\ op.name = "run" =>
        /\ op.reads \in { << >>, <<"log">>, <<"log", "results">> }
        /\ op.reads # << >> => op.run_calls = 1 /\ engine = "idle"
        /\ op.shown => log_text[2] = "complete"
    /\ engine # "idle" => pc = "run_analysis"

\* C6 witness: a run has read the log and then the complete report.
C6_Witness ==
    /\ op.name = "run"
    /\ op.reads = <<"log", "results">>
    /\ log_text = <<runs, "complete">>
    /\ pc = "idle"

\* C8: whenever current_file names a model file, db.results_file is the results
\* path derived from that file (by the code's rule or by the extension rule)
\* and the loaded model is the one read from that file.
C8_FileModelResultsAgree ==
    current_file # NoFile =>
        /\ db_model = current_file
        /\ \/ results_file = ExpectedResultsPath(current_file)
           \/ Index(current_file, ".") # -1 /\ results_file = ResultsPath(current_file)

C9_Frame ==
    (op' # op /\ op'.name = "save") =>
        LET allThree == current_file # NoFile /\ is_modified /\ WellFormed(xml_text)
        IN /\ op'.wrote # << >> =>
                allThree /\ op'.wrote[1] = current_file /\ op'.wrote[2] = xml_text
           /\ ~allThree =>
                op'.wrote = << >> /\ UNCHANGED <<current_file, is_modified, save_enabled>>
           /\ (allThree /\ op'.outcome = "ok") =>
                op'.wrote = <<current_file, xml_text, "full">>
           /\ (allThree /\ op'.outcome # "ok") =>
                is_modified' /\ save_enabled' /\ UNCHANGED <<is_modified, save_enabled>>

\* C9: save_file writes the editor text to current_file only when a file has
\* been opened, is_modified is true and the text is well-formed XML; otherwise
\* nothing is written and current_file, is_modified and the save button are
\* unchanged; when the write fails is_modified stays true and the button enabled.
C9_SaveWritesOnlyWhenAllowed == [][C9_Frame]_vars

\* C9 witness: a save wrote the whole text and reset the flag.
C9_Witness ==
    /\ op.name = "save"
    /\ op.wrote = <<current_file, xml_text, "full">>
    /\ ~is_modified
    /\ ~save_enabled

\* C10: right after open_file has loaded a file, before any user edit,
\* is_modified is false and the save button is disabled.
C10_CleanAfterOpen ==
    (op.name = "open" /\ op.outcome = "ok") => (~is_modified /\ ~save_enabled)

\* The displacement vectors of up to MaxDof degrees of freedom.
Vectors(S) == UNION { [1..n -> S] : n \in 1..MaxDof }

\* The stages inside db.run_analysis, for every reference solution and every
\* departure of the specialized solver from it.
EngineNext ==
    \/ \E ref \in Vectors(RefValues), departure \in Vectors(Departures) :
          Len(ref) = Len(departure) /\ EngineSolve(ref, departure)
    \/ EngineCompare
    \/ EngineRecover
    \/ EngineReport

EngineSpec == Init /\ [][EngineNext]_vars

Before(done, a, b) ==
    \A j \in 1..Len(done) : done[j] = b => \E i \in 1..(j - 1) : done[i] = a

Logged(msg) == \E i \in 1..Len(e_log) : e_log[i] = msg

PairNext ==
    \E w \in Windows :
        \/ PairCallRunAnalysis(w)
        \/ PairEngineLogs(w)
        \/ PairEngineAcquires(w)
        \/ PairEngineWritesReport(w)
        \/ PairEngineReturns(w)
        \/ PairReadLog(w)
        \/ PairReadResults(w)

PairSpec == Init /\ [][PairNext]_vars

\* The lines are the output of one run, whole or a beginning of it.
OneRunSoFar(lines) ==
    /\ Len(lines) <= Len(RunLogLines)
    /\ \A i \in 1..Len(lines) : lines[i][1] = lines[1][1] /\ lines[i][2] = RunLogLines[i]

\* C7: two concurrent Static-Linear runs on the same results path and the same
\* 'analysis.log' never interleave their writes, and every reader sees the
\* complete output of exactly one run: the results path has one owner while it
\* is written, the log on disk holds the lines of one run, and what a window
\* loads is the whole log of one run and a report.
C7_RunsDoNotInterleave ==
    /\ \A w \in Windows : c_pc[w] \in {"owner", "written"} => c_owner = w
    /\ OneRunSoFar(c_log)
    /\ \A w \in Windows :
          c_seen[w] # << >> =>
              /\ OneRunSoFar(c_seen[w][1])
              /\ Len(c_seen[w][1]) = Len(RunLogLines)
              /\ Len(c_seen[w]) = 2 => c_seen[w][2] \in Windows

\* C11: in every reachable state of the window, after any sequence of text
\* edits, open_file and save_file calls, successful or failing, the save button
\* is enabled if and only if is_modified is true.
C11_SaveButtonTracksModified == save_enabled <=> is_modified

\* C11 witness: a save whose write failed, after an edit, leaves the flag set
\* and the button enabled.
C11_Witness ==
    /\ op.name = "save"
    /\ op.outcome \in {"open_error", "write_error"}
    /\ current_file \in FileNames
    /\ is_modified
    /\ save_enabled

====
